---------------------------- MODULE Spec2Model ----------------------------
(***************************************************************************)
(* The notebook "Bayesian SN Cosmology" as a state machine.                *)
(*                                                                         *)
(* The state is the kernel: the names bound in its namespace, the values   *)
(* of the names the sampler and the weighting read or write, the tables    *)
(* (DataFrames) on the heap, and the position of the execution.  There is  *)
(* one action per code cell, run in document order; the sampling cell is   *)
(* split into its set-up statements, one action per iteration of its loop  *)
(* and the loop's exit.  A cell that raises stops at the raising statement *)
(* and keeps the bindings made before it.                                  *)
(*                                                                         *)
(* Numbers are exact rationals <<n, d>> with d > 0 in lowest terms.        *)
(* Random draws range over small sets of values.                           *)
(***************************************************************************)
EXTENDS Integers, Sequences, FiniteSets, TLC

VARIABLES
    mode,           \* "run_all": the run stops at the first error; "step": the user goes on
    pc,             \* the code cell to run next (1..23), or the cell that halted the run
    phase,          \* "top": between cells; "loop": inside the sampling loop; "halted"
    bound,          \* the names bound in the kernel's namespace
    err,            \* the exception raised by the cell run last ("" when it ended normally)
    heap,           \* the tables (DataFrames) alive in the kernel, by reference
    datafr,         \* the reference bound to the name datafr (0: none)
    schain,         \* the list bound to the name schain: references of tables
    z,              \* the arrays the sampling cell reads and no cell binds
    mb_obs,
    x1_obs,
    c_obs,
    Omega_m,        \* the global Omega_m
    cosmo,          \* the Om0 the object bound to cosmo was built with
    mu,             \* the array bound to mu
    mb_true,        \* the Series bound to mb_true
    likelihood_val, \* what the name likelihood is bound to: a float or the function
    i,              \* the number of loop iterations completed (the next value of i)
    ret             \* the reference returned by the last call of weight_by_likelihood (0: none)

vars == <<mode, pc, phase, bound, err, heap, datafr, schain, z, mb_obs, x1_obs,
          c_obs, Omega_m, cosmo, mu, mb_true, likelihood_val, i, ret>>

---------------------------------------------------------------------------
(* Bounds and program constants *)

\* The number of objects per candidate: 10 in the source (nSN = 10); the
\* model takes a smaller table.
nSN == 2

\* The rows of the table built by the packaging cell: 10 in the source
\* (np.ones((10, len(par_labels)))); the model takes a smaller table.
nRows == 2

\* N = 2: the number of candidates the loop draws.
N == 2

---------------------------------------------------------------------------
(* Exact rational arithmetic, standing for the floats *)

Abs(n) == IF n < 0 THEN -n ELSE n

RECURSIVE GCD(_, _)
GCD(a, b) == IF b = 0 THEN a ELSE GCD(b, a % b)

Norm(n, d) ==
    LET g == GCD(Abs(n), Abs(d))
        s == IF d < 0 THEN -1 ELSE 1
    IN  <<(s * n) \div g, (s * d) \div g>>

Zero == <<0, 1>>
One == <<1, 1>>
Half == <<1, 2>>

RAdd(a, b) ==
    LET l == (a[2] * b[2]) \div GCD(a[2], b[2])
    IN  Norm(a[1] * (l \div a[2]) + b[1] * (l \div b[2]), l)
RNeg(a) == <<-a[1], a[2]>>
RSub(a, b) == RAdd(a, RNeg(b))
RMul(a, b) ==
    LET g1 == GCD(Abs(a[1]), b[2])
        g2 == GCD(Abs(b[1]), a[2])
    IN  Norm((a[1] \div g1) * (b[1] \div g2), (a[2] \div g2) * (b[2] \div g1))
RDiv(a, b) == RMul(a, Norm(b[2], b[1]))      \* b is never zero here
RSq(a) == RMul(a, a)
RLt(a, b) == a[1] * b[2] < b[1] * a[2]
RLe(a, b) == a[1] * b[2] <= b[1] * a[2]

\* Arrays and Series are sequences; a scalar broadcasts to every row.
Const(n, v) == [k \in 1..n |-> v]
VAdd(a, b) == [k \in 1..Len(a) |-> RAdd(a[k], b[k])]
VSub(a, b) == [k \in 1..Len(a) |-> RSub(a[k], b[k])]
VMul(a, b) == [k \in 1..Len(a) |-> RMul(a[k], b[k])]

RECURSIVE VSum(_)
VSum(a) == IF a = <<>> THEN Zero ELSE RAdd(a[1], VSum(Tail(a)))

---------------------------------------------------------------------------
(* Random draws *)

\* scipy.stats.norm.rvs() and np.random.normal draw any real; the model
\* draws from two values, one negative and one in (0, 1).
Rvs == {<<-1, 1>>, Half}

\* rvs(size=n): a constant array and an alternating one.
RvsSize(n) == {Const(n, Half), [k \in 1..n |-> IF k % 2 = 1 THEN <<-1, 1>> ELSE Half]}

---------------------------------------------------------------------------
(* Tables (pandas DataFrames) and the heap *)

par_labels == <<"x1_true", "c_true", "mb_true", "alpha", "beta", "MB", "Omega_m", "sigma_int">>

Range(s) == {s[k] : k \in DOMAIN s}

\* pd.DataFrame(np.ones((n, len(par_labels))), columns=par_labels)
OnesTable(n) == [n |-> n, col |-> [c \in Range(par_labels) |-> Const(n, One)]]

\* t[c] = v, v an array or a broadcast scalar
SetCol(t, c, v) == [t EXCEPT !.col = (c :> v) @@ t.col]

\* t[[...]]: a new table holding the listed columns
Slice(t, cs) == [n |-> t.n, col |-> [c \in cs |-> t.col[c]]]

Columns(ref) == IF ref \in DOMAIN heap THEN DOMAIN heap[ref].col ELSE {}

EmptyHeap == [r \in {} |-> 0]

NewRef(h) == CHOOSE r \in 1..(Cardinality(DOMAIN h) + 1) :
                /\ r \notin DOMAIN h
                /\ \A q \in 1..(r - 1) : q \in DOMAIN h

\* h with table t stored at reference r
Store(h, r, t) == [q \in DOMAIN h \cup {r} |-> IF q = r THEN t ELSE h[q]]

\* Objects no name and no list refers to are freed.
Collect(h, roots) == [q \in DOMAIN h \cap roots |-> h[q]]

Roots(d, s) == {d} \cup Range(s)

---------------------------------------------------------------------------
(* The distance modulus *)

\* FlatLambdaCDM(H0=70, Om0=Om).distmod(zz), to 0.1 mag, at the redshifts
\* and matter densities the model uses.
DistMod(zz, Om) ==
    CASE zz = <<1, 5>> /\ Om = <<3, 10>> -> <<40, 1>>
      [] zz = <<1, 5>> /\ Om = <<1, 2>>  -> <<399, 10>>
      [] zz = <<1, 1>> /\ Om = <<3, 10>> -> <<441, 10>>
      [] zz = <<1, 1>> /\ Om = <<1, 2>>  -> <<439, 10>>

\* cosmo.distmod(z).value for an array z
distmod(Om, zs) == [k \in 1..Len(zs) |-> DistMod(zs[k], Om)]

---------------------------------------------------------------------------
(* The likelihood of the sampling cell *)

\* def LogGaussian(x,mu,sig): return -0.5*(x-mu)**2 /sig**2
LogGaussian(x, m, sig) == RDiv(RMul(<<-1, 2>>, RSq(RSub(x, m))), RSq(sig))

\* LogGaussian applied to arrays, element by element
LogGaussianV(x, m, sig) == [k \in 1..Len(x) |-> LogGaussian(x[k], m[k], sig[k])]

\* MB - alpha*x1_true + beta*c_true + mu, on the columns of table t
MbTrue(t, muv) ==
    VAdd(VAdd(VSub(t.col["MB"], VMul(t.col["alpha"], t.col["x1_true"])),
              VMul(t.col["beta"], t.col["c_true"])),
         muv)

likelihood_mobs(t, mb) == LogGaussianV(mb_obs, mb, VMul(t.col["sigma_int"], t.col["sigma_int"]))
likelihood_x1(t) == LogGaussianV(x1_obs, t.col["x1_true"], Const(t.n, RSq(Half)))
likelihood_c(t) == LogGaussianV(c_obs, t.col["c_true"], Const(t.n, RSq(Half)))

\* np.sum([likelihood_mobs, likelihood_x1, likelihood_c]): the sum of every element
LikelihoodSum(t, mb) == VSum(likelihood_mobs(t, mb) \o likelihood_x1(t) \o likelihood_c(t))

\* The columns of a table appended to schain
ChainColumns == {"mb_true", "alpha", "beta", "MB", "Omega_m", "sigma_int"}

\* A list assignment in place of the append.
ListAppend_Replace(s, e) == <<e>>

\* schain.append(e)
ListAppend(s, e) == Append(s, e)

---------------------------------------------------------------------------
(* The weighting functions *)

\* def likelihood(parameters): L = 1.0; return L
likelihood(parameters) == One

\* The weights set on a copy of the table, which is returned.
weight_by_likelihood_Copy(h, p) ==
    [heap |-> Store(h, NewRef(h), SetCol(h[p], "weight", Const(h[p].n, likelihood(h[p])))),
     ret |-> NewRef(h)]

\* def weight_by_likelihood(parameters): parameters['weight'] = likelihood(parameters);
\* return parameters.  parameters is the reference p of a table of heap h.
weight_by_likelihood(h, p) ==
    [heap |-> [h EXCEPT ![p] = SetCol(h[p], "weight", Const(h[p].n, likelihood(h[p])))],
     ret |-> p]

---------------------------------------------------------------------------
(* Statements: the names each reads and binds, and the error it raises *)

S(reads, binds) == [reads |-> reads, binds |-> binds, raises |-> ""]
SErr(reads, e) == [reads |-> reads, binds |-> {}, raises |-> e]

\* Runs the statements of body from the j-th in namespace b: a statement
\* that reads an unbound name raises NameError; the statements after a
\* raising one are not run.  at is the raising statement (0: none).
RECURSIVE RunBody(_, _, _)
RunBody(body, j, b) ==
    IF j > Len(body) THEN [bound |-> b, err |-> "", at |-> 0]
    ELSE IF ~(body[j].reads \subseteq b) THEN [bound |-> b, err |-> "NameError", at |-> j]
    ELSE IF body[j].raises # "" THEN [bound |-> b, err |-> body[j].raises, at |-> j]
    ELSE RunBody(body, j + 1, b \cup body[j].binds)

\* The result of a cell that does not compile.
SyntaxError(b) == [bound |-> b, err |-> "SyntaxError", at |-> 1]

\* Statement j of a run with result res was completed.
Done(res, j) == res.at = 0 \/ j < res.at

\* FlatLambdaCDM refuses a negative matter density.
OmError == IF RLt(Omega_m, Zero) THEN "ValueError" ELSE ""

\* Every cell compiling.
Compiles_All(k) == TRUE

\* The ninth cell ends in "mb_true = " with no right-hand side: it does not
\* compile, and none of its statements is run.
Compiles(k) == k # 9

\* The statements of code cell k.
Code(k) ==
    CASE k = 1 -> << S({}, {"sp"}), S({}, {"np"}), S({}, {"sncosmo"}), S({}, {"plt"}),
                     S({}, {"FlatLambdaCDM"}) >>
      [] k = 2 -> << S({}, {"size_we_want"}) >>
      [] k = 3 -> << S({"np", "size_we_want"}, {"x1_true_dist"}) >>
      [] k = 4 -> << S({"np", "x1_true_dist"}, {"x1_obs_unc"}),
                     S({"np", "x1_true_dist", "x1_obs_unc", "size_we_want"}, {"x1_obs_dist"}) >>
      [] k = 5 -> << S({"np", "size_we_want"}, {"c_true_norm"}),
                     S({"np", "size_we_want"}, {"c_true_exp"}),
                     S({"np", "c_true_norm", "c_true_exp"}, {"c_true_dist"}),
                     S({"np", "c_true_dist"}, {"c_obs_unc"}),
                     S({"np", "c_true_dist", "c_obs_unc", "size_we_want"}, {"c_obs_dist"}) >>
      [] k = 6 -> << S({"np", "size_we_want"}, {"z_dist"}) >>
      [] k = 7 -> << S({}, {"alpha"}), S({}, {"beta"}), S({}, {"MB"}), S({}, {"Omega_m"}),
                     S({}, {"sigma_int"}) >>
      [] k = 8 -> << [S({"FlatLambdaCDM", "Omega_m"}, {"cosmo"}) EXCEPT !.raises = OmError],
                     S({"cosmo", "z_dist"}, {"mu_dist"}) >>
      [] k = 9 -> << S({"MB", "alpha", "x1_true_dist", "beta", "c_true_dist", "mu_dist"},
                       {"mb_true_mean"}),
                     S({"sigma_int"}, {"mb_true_var"}) >>
      [] k = 10 -> << S({"plt"}, {}), S({"plt", "mb_true_dist"}, {}) >>
      [] k = 11 -> << S({}, {"pd"}), S({}, {"par_labels"}),
                      S({"pd", "np", "par_labels"}, {"datafr"}), S({"datafr"}, {}) >>
      [] k = 12 -> << S({}, {"N"}), S({}, {"nSN"}),
                      [S({"FlatLambdaCDM", "Omega_m"}, {"cosmo"}) EXCEPT !.raises = OmError],
                      S({"cosmo", "z"}, {"mu"}), S({}, {"LogGaussian"}), S({}, {"schain"}) >>
      [] k = 13 -> << S({}, {"schain"}),
                      [S({"schain", "datafr"}, {}) EXCEPT !.raises =
                          IF ChainColumns \subseteq Columns(datafr) THEN "" ELSE "KeyError"] >>
      [] k = 14 -> << SErr({"par_labels"}, "ValueError") >>
      [] k = 15 -> << S({}, {"scipy"}), S({"datafr", "scipy"}, {}), S({"datafr"}, {}) >>
      [] k = 16 -> << S({"datafr", "np"}, {"datafr"}) >>
      [] k = 17 -> << S({"datafr"}, {}) >>
      [] k = 18 -> << S({}, {"likelihood"}) >>
      [] k = 19 -> << S({}, {"weight_by_likelihood"}) >>
      [] k = 20 -> << [S({"weight_by_likelihood", "datafr", "likelihood"}, {}) EXCEPT !.raises =
                          IF likelihood_val.kind = "function" THEN "" ELSE "TypeError"] >>
      [] k = 21 -> << S({"plt"}, {}),
                      [S({"plt", "datafr"}, {}) EXCEPT !.raises =
                          IF "Omega" \in Columns(datafr) THEN "" ELSE "KeyError"],
                      S({"plt", "np"}, {}) >>
      [] k = 22 -> << >>

\* Code cell k run in namespace b.
RunCell(k, b) == IF Compiles(k) THEN RunBody(Code(k), 1, b) ELSE SyntaxError(b)

\* The statements of one iteration of the sampling loop.
LoopBody ==
    << S({"pd", "np", "nSN", "par_labels"}, {"datafr"}),
       S({"datafr", "scipy"}, {}), S({"datafr", "scipy"}, {}), S({"datafr", "scipy"}, {}),
       S({"datafr", "scipy"}, {}), S({"datafr", "scipy"}, {}),
       S({"datafr", "scipy", "nSN"}, {}), S({"datafr", "scipy", "nSN"}, {}),
       S({"datafr", "mu"}, {"mb_true"}),
       S({"LogGaussian", "mb_obs", "mb_true", "datafr"}, {"likelihood_mobs"}),
       S({"LogGaussian", "x1_obs", "datafr"}, {"likelihood_x1"}),
       S({"LogGaussian", "c_obs", "datafr"}, {"likelihood_c"}),
       S({"np", "likelihood_mobs", "likelihood_x1", "likelihood_c"}, {"likelihood"}),
       S({"schain", "datafr"}, {}) >>

---------------------------------------------------------------------------
(* The kernel before the first cell is run *)

\* The arrays a session may have left bound to z, mb_obs, x1_obs and c_obs:
\* one value per object.
ZData == {Const(nSN, <<1, 5>>), [k \in 1..nSN |-> IF k % 2 = 1 THEN <<1, 5>> ELSE <<1, 1>>]}
MbObsData == {Const(nSN, <<40, 1>>), [k \in 1..nSN |-> IF k % 2 = 1 THEN <<40, 1>> ELSE <<44, 1>>]}
X1ObsData == {Const(nSN, One)}
CObsData == {Const(nSN, Zero)}

\* The names the sampling cell reads that no cell before it binds.
SessionNames == {"z", "mb_obs", "x1_obs", "c_obs", "scipy"}

InitCommon ==
    /\ mode \in {"run_all", "step"}
    /\ pc = 1
    /\ phase = "top"
    /\ err = ""
    /\ heap = EmptyHeap
    /\ datafr = 0
    /\ schain = <<>>
    /\ Omega_m = Zero
    /\ cosmo = Zero
    /\ mu = <<>>
    /\ mb_true = <<>>
    /\ likelihood_val = [kind |-> "none", val |-> Zero]
    /\ i = 0
    /\ ret = 0

\* A new kernel: the namespace is empty.
Init ==
    /\ InitCommon
    /\ bound = {}
    /\ z = <<>>
    /\ mb_obs = <<>>
    /\ x1_obs = <<>>
    /\ c_obs = <<>>

\* A kernel in which the session has bound the names the sampling cell
\* reads and the notebook does not define.
InitSession ==
    /\ InitCommon
    /\ bound = SessionNames
    /\ z \in ZData
    /\ mb_obs \in MbObsData
    /\ x1_obs \in X1ObsData
    /\ c_obs \in CObsData

---------------------------------------------------------------------------
(* The cells *)

At(k) == phase = "top" /\ pc = k

\* The end of a cell whose statements ran with result res.
Advance(res) ==
    /\ bound' = res.bound
    /\ err' = res.err
    /\ IF res.err # "" /\ mode = "run_all"
       THEN phase' = "halted" /\ pc' = pc
       ELSE phase' = "top" /\ pc' = pc + 1

\* A cell that only binds names (or raises).
NamesOnly(k) ==
    /\ At(k)
    /\ Advance(RunCell(k, bound))
    /\ UNCHANGED <<mode, heap, datafr, schain, z, mb_obs, x1_obs, c_obs, Omega_m, cosmo,
                   mu, mb_true, likelihood_val, i, ret>>

\* import scipy as sp, numpy as np, sncosmo, matplotlib.pylab as plt, FlatLambdaCDM
Cell1 == NamesOnly(1)
\* size_we_want = 250
Cell2 == NamesOnly(2)
\* x1_true_dist
Cell3 == NamesOnly(3)
\* x1_obs_unc, x1_obs_dist
Cell4 == NamesOnly(4)
\* c_true_norm, c_true_exp, c_true_dist, c_obs_unc, c_obs_dist
Cell5 == NamesOnly(5)
\* z_dist
Cell6 == NamesOnly(6)

\* alpha = 0.13 ... Omega_m = 0.3, sigma_int = 0.15
Cell7 ==
    /\ At(7)
    /\ LET res == RunCell(7, bound)
       IN  /\ Advance(res)
           /\ Omega_m' = IF Done(res, 4) THEN <<3, 10>> ELSE Omega_m
    /\ UNCHANGED <<mode, heap, datafr, schain, z, mb_obs, x1_obs, c_obs, cosmo,
                   mu, mb_true, likelihood_val, i, ret>>

\* cosmo = FlatLambdaCDM(H0=70, Om0=Omega_m); mu_dist = cosmo.distmod(z_dist).value
Cell8 ==
    /\ At(8)
    /\ LET res == RunCell(8, bound)
       IN  /\ Advance(res)
           /\ cosmo' = IF Done(res, 1) THEN Omega_m ELSE cosmo
    /\ UNCHANGED <<mode, heap, datafr, schain, z, mb_obs, x1_obs, c_obs, Omega_m,
                   mu, mb_true, likelihood_val, i, ret>>

\* mb_true_mean = ...; mb_true_var = ...; mb_true =        (does not compile)
Cell9 == NamesOnly(9)
\* plt.figure(); plt.hist(mb_true_dist)
Cell10 == NamesOnly(10)

\* import pandas as pd; par_labels = [...]; datafr = pd.DataFrame(np.ones((10, len(par_labels))), ...)
Cell11 ==
    /\ At(11)
    /\ LET res == RunCell(11, bound)
           r == NewRef(heap)
       IN  /\ Advance(res)
           /\ datafr' = IF Done(res, 3) THEN r ELSE datafr
           /\ heap' = IF Done(res, 3)
                      THEN Collect(Store(heap, r, OnesTable(nRows)), Roots(r, schain))
                      ELSE heap
    /\ UNCHANGED <<mode, schain, z, mb_obs, x1_obs, c_obs, Omega_m, cosmo,
                   mu, mb_true, likelihood_val, i, ret>>

\* The sampling cell up to its loop: N = 2; nSN = 10; cosmo = ...;
\* mu = cosmo.distmod(z).value; def LogGaussian; schain = []
Cell12 ==
    /\ At(12)
    /\ LET res == RunCell(12, bound)
       IN  /\ bound' = res.bound
           /\ err' = res.err
           /\ IF res.err = "" THEN phase' = "loop" /\ pc' = pc
              ELSE IF mode = "run_all" THEN phase' = "halted" /\ pc' = pc
              ELSE phase' = "top" /\ pc' = pc + 1
           /\ cosmo' = IF Done(res, 3) THEN Omega_m ELSE cosmo
           /\ mu' = IF Done(res, 4) THEN distmod(Omega_m, z) ELSE mu
           /\ schain' = IF Done(res, 6) THEN <<>> ELSE schain
           /\ heap' = IF Done(res, 6) THEN Collect(heap, {datafr}) ELSE heap
    /\ i' = 0
    /\ UNCHANGED <<mode, datafr, z, mb_obs, x1_obs, c_obs, Omega_m, mb_true,
                   likelihood_val, ret>>

\* The table of one iteration after its eight column assignments, as far
\* as the run res of the loop's statements got.
DrawTable(res, a, b, M, s, Om, x1, c) ==
    [n |-> nSN,
     col |-> [name \in Range(par_labels) |->
        CASE name = "alpha" /\ Done(res, 2) -> Const(nSN, a)
          [] name = "beta" /\ Done(res, 3) -> Const(nSN, b)
          [] name = "MB" /\ Done(res, 4) -> Const(nSN, M)
          [] name = "sigma_int" /\ Done(res, 5) -> Const(nSN, s)
          [] name = "Omega_m" /\ Done(res, 6) -> Const(nSN, Om)
          [] name = "x1_true" /\ Done(res, 7) -> x1
          [] name = "c_true" /\ Done(res, 8) -> c
          [] OTHER -> Const(nSN, One)]]

\* One iteration of for i in range(N): the draws, mb_true, the likelihood, the append.
LoopIter ==
    /\ phase = "loop"
    /\ i < N
    /\ \E res \in {RunBody(LoopBody, 1, bound \cup {"i"})} :
       \E a, b, M, s, Om \in Rvs : \E x1, c \in RvsSize(nSN) :
       \E t \in {DrawTable(res, a, b, M, s, Om, x1, c)} :
       \E mb \in {IF Done(res, 9) THEN MbTrue(t, mu) ELSE mb_true} :
         LET r1 == NewRef(heap)
             h1 == IF Done(res, 1) THEN Store(heap, r1, t) ELSE heap
             d1 == IF Done(res, 1) THEN r1 ELSE datafr
             r2 == NewRef(h1)
             s1 == IF Done(res, 14) THEN ListAppend(schain, r2) ELSE schain
             h2 == IF Done(res, 14) THEN Store(h1, r2, Slice(t, ChainColumns)) ELSE h1
         IN  /\ bound' = res.bound
             /\ err' = res.err
             /\ datafr' = d1
             /\ schain' = s1
             /\ heap' = Collect(h2, Roots(d1, s1))
             /\ mb_true' = mb
             /\ likelihood_val' = IF Done(res, 13)
                                  THEN [kind |-> "float", val |-> LikelihoodSum(t, mb)]
                                  ELSE likelihood_val
             /\ IF res.err = "" THEN phase' = "loop" /\ pc' = pc /\ i' = i + 1
                ELSE IF mode = "run_all" THEN phase' = "halted" /\ pc' = pc /\ i' = i
                ELSE phase' = "top" /\ pc' = pc + 1 /\ i' = i
    /\ UNCHANGED <<mode, z, mb_obs, x1_obs, c_obs, Omega_m, cosmo, mu, ret>>

\* range(N) is exhausted: the sampling cell ends.
LoopExit ==
    /\ phase = "loop"
    /\ i = N
    /\ phase' = "top"
    /\ pc' = pc + 1
    /\ err' = ""
    /\ UNCHANGED <<mode, bound, heap, datafr, schain, z, mb_obs, x1_obs, c_obs, Omega_m,
                   cosmo, mu, mb_true, likelihood_val, i, ret>>

\* schain = []; schain.append(datafr[['mb_true', 'alpha', 'beta', 'MB', 'Omega_m', 'sigma_int']])
Cell13 ==
    /\ At(13)
    /\ LET res == RunCell(13, bound)
           r == NewRef(heap)
           s1 == IF Done(res, 2) THEN ListAppend(<<>>, r)
                 ELSE IF Done(res, 1) THEN <<>> ELSE schain
           h1 == IF Done(res, 2) THEN Store(heap, r, Slice(heap[datafr], ChainColumns)) ELSE heap
       IN  /\ Advance(res)
           /\ schain' = s1
           /\ heap' = Collect(h1, Roots(datafr, s1))
    /\ UNCHANGED <<mode, datafr, z, mb_obs, x1_obs, c_obs, Omega_m, cosmo,
                   mu, mb_true, likelihood_val, i, ret>>

\* params = dict(par_labels)
Cell14 == NamesOnly(14)

\* import scipy.stats; datafr['alpha'] = scipy.stats.norm.rvs(); datafr
Cell15 ==
    /\ At(15)
    /\ \E a \in Rvs :
         LET res == RunCell(15, bound)
         IN  /\ Advance(res)
             /\ heap' = IF Done(res, 2)
                        THEN [heap EXCEPT ![datafr] = SetCol(@, "alpha", Const(@.n, a))]
                        ELSE heap
    /\ UNCHANGED <<mode, datafr, schain, z, mb_obs, x1_obs, c_obs, Omega_m, cosmo,
                   mu, mb_true, likelihood_val, i, ret>>

\* datafr = datafr.apply(lambda x: np.random.normal(size=x.size))
Cell16 ==
    /\ At(16)
    /\ LET res == RunCell(16, bound)
           r == NewRef(heap)
       IN  IF Done(res, 1)
           THEN \E f \in [Columns(datafr) -> RvsSize(heap[datafr].n)] :
                  /\ Advance(res)
                  /\ datafr' = r
                  /\ heap' = Collect(Store(heap, r, [n |-> heap[datafr].n, col |-> f]),
                                     Roots(r, schain))
           ELSE /\ Advance(res)
                /\ UNCHANGED <<datafr, heap>>
    /\ UNCHANGED <<mode, schain, z, mb_obs, x1_obs, c_obs, Omega_m, cosmo,
                   mu, mb_true, likelihood_val, i, ret>>

\* datafr.describe()
Cell17 == NamesOnly(17)

\* def likelihood(parameters)
Cell18 ==
    /\ At(18)
    /\ Advance(RunCell(18, bound))
    /\ likelihood_val' = [kind |-> "function", val |-> Zero]
    /\ UNCHANGED <<mode, heap, datafr, schain, z, mb_obs, x1_obs, c_obs, Omega_m, cosmo,
                   mu, mb_true, i, ret>>

\* def weight_by_likelihood(parameters)
Cell19 == NamesOnly(19)

\* weight_by_likelihood(datafr);
Cell20 ==
    /\ At(20)
    /\ LET res == RunCell(20, bound)
           w == weight_by_likelihood(heap, datafr)
       IN  /\ Advance(res)
           /\ heap' = IF Done(res, 1) THEN w.heap ELSE heap
           /\ ret' = IF Done(res, 1) THEN w.ret ELSE ret
    /\ UNCHANGED <<mode, datafr, schain, z, mb_obs, x1_obs, c_obs, Omega_m, cosmo,
                   mu, mb_true, likelihood_val, i>>

\* plt.figure(); plt.hist(datafr['Omega'], ...); plt.hist(np.random.normal(size=1e4), ...)
Cell21 == NamesOnly(21)
\* (empty)
Cell22 == NamesOnly(22)

---------------------------------------------------------------------------
(* The specifications *)

\* The cells before the sampling cell.
Preamble ==
    \/ Cell1 \/ Cell2 \/ Cell3 \/ Cell4 \/ Cell5 \/ Cell6 \/ Cell7 \/ Cell8
    \/ Cell9 \/ Cell10 \/ Cell11

\* The notebook, cell by cell in document order, in a new kernel.  The
\* sampling cell raises before its loop there, so the loop's actions are
\* those of SpecLoop only.
Next ==
    \/ Preamble
    \/ Cell12 \/ Cell13 \/ Cell14 \/ Cell15 \/ Cell16 \/ Cell17 \/ Cell18 \/ Cell19
    \/ Cell20 \/ Cell21 \/ Cell22

Spec == Init /\ [][Next]_vars

\* The sampling cell with its inputs bound by the session: the notebook in
\* document order through the cell that follows the sampling cell.
NextLoop == Preamble \/ Cell12 \/ LoopIter \/ LoopExit \/ Cell13

SpecLoop == InitSession /\ [][NextLoop]_vars

---------------------------------------------------------------------------
(* The claims *)

\* A sampling-loop iteration has just completed: the last entry of schain
\* is the candidate drawn in it.
IterationDone == phase = "loop" /\ i >= 1 /\ Len(schain) >= 1

LastEntry == heap[schain[Len(schain)]]

\* C1: after weight_by_likelihood, the weights carried by a table of n >= 1
\* rows sum to 1.
C1_WeightsSumToOne ==
    \A r \in DOMAIN heap :
        "weight" \in DOMAIN heap[r].col /\ heap[r].n >= 1
            => VSum(heap[r].col["weight"]) = One

\* C2: every candidate drawn by the loop is stored in schain together with
\* its log-weight, the log-likelihood computed for it, so that after i
\* iterations schain holds i (candidate, log-weight) pairs.
C2_LogWeightStored ==
    IterationDone =>
        /\ Len(schain) = i
        /\ \E c \in DOMAIN LastEntry.col \ Range(par_labels) :
               LastEntry.col[c] = Const(LastEntry.n, likelihood_val.val)

\* C3: the mu used for a candidate's mb_true is the distance modulus at the
\* Omega_m drawn for that candidate.
C3_MuAtDrawnOmega ==
    IterationDone =>
        LET t == heap[datafr]
            Om == t.col["Omega_m"][1]
        IN  RLe(Zero, Om) /\ RLe(Om, One) => mb_true = MbTrue(t, distmod(Om, z))

\* C4: no candidate with a sigma_int that is not strictly positive or an
\* Omega_m outside [0, 1], and no redshift <= 0, is used or appended.
C4_OutOfDomainRejected ==
    \A k \in 1..Len(schain) :
        LET t == heap[schain[k]]
        IN  \A row \in 1..t.n :
                /\ RLt(Zero, t.col["sigma_int"][row])
                /\ RLe(Zero, t.col["Omega_m"][row])
                /\ RLe(t.col["Omega_m"][row], One)
                /\ RLt(Zero, z[row])

\* The effective sample size of the weights of table t, once normalized:
\* 1 / sum((w / sum(w))^2).
EffectiveSampleSize(t) ==
    LET w == t.col["weight"]
    IN  RDiv(RSq(VSum(w)), VSum(VMul(w, w)))

\* C5 (its case never arises): the weights of a weighted table are all
\* equal, so its effective sample size is its number of rows and is below
\* no fraction of it.
C5_EssIsRowCount ==
    \A r \in DOMAIN heap :
        "weight" \in DOMAIN heap[r].col => EffectiveSampleSize(heap[r]) = <<heap[r].n, 1>>

\* The measurement standard deviation of mb.
SigmaMbObs == <<1, 20>>

\* C6: the log-likelihood of a candidate is the sum over the objects of the
\* LogGaussian terms of mb, x1 and c, each at the observed value, with the
\* candidate's true value as mean and the field's measurement standard
\* deviation (0.05, 0.5, 0.5) as sig.
C6_LikelihoodIsGaussianSum ==
    IterationDone =>
        LET t == heap[datafr]
        IN  likelihood_val.val =
                VSum(LogGaussianV(mb_obs, mb_true, Const(t.n, SigmaMbObs))
                     \o LogGaussianV(x1_obs, t.col["x1_true"], Const(t.n, Half))
                     \o LogGaussianV(c_obs, t.col["c_true"], Const(t.n, Half)))

\* C7: the entry appended for a candidate holds its global hyperparameters
\* and all its per-object latent values: x1_true, c_true and the mb_true
\* computed for it.
C7_EntryIsJointDraw ==
    IterationDone =>
        LET t == heap[datafr]
        IN  /\ {"alpha", "beta", "MB", "Omega_m", "sigma_int", "x1_true", "c_true", "mb_true"}
                   \subseteq DOMAIN LastEntry.col
            /\ \A c \in {"alpha", "beta", "MB", "Omega_m", "sigma_int", "x1_true", "c_true"} :
                   LastEntry.col[c] = t.col[c]
            /\ LastEntry.col["mb_true"] = mb_true

C9_SamplerNeverRuns ==
    /\ mode = "run_all" => pc <= 9
    /\ phase = "halted" => pc = 9 /\ err = "SyntaxError"
    /\ (phase = "top" /\ pc = 12) =>
           /\ bound \cap SessionNames = {}
           /\ {"z_dist", "x1_obs_dist", "c_obs_dist"} \subseteq bound
    /\ (phase = "top" /\ pc = 13) => err = "NameError"
    /\ phase # "loop"
    /\ i = 0
    /\ bound \cap {"z", "mb_obs", "x1_obs", "c_obs", "mu", "LogGaussian", "mb_true"} = {}
    /\ "scipy" \in bound => pc > 15
    /\ "schain" \in bound => pc > 13 /\ Len(schain) = 1

\* The sampling cell has been run, cell by cell, and has raised.
C9_Witness ==
    /\ mode = "step" /\ phase = "top" /\ pc = 13
    /\ err = "NameError"
    /\ {"N", "nSN", "cosmo", "z_dist"} \subseteq bound

\* C10: likelihood returns 1.0 for every table; weight_by_likelihood sets
\* the weight of every row to 1.0, changes no other column, keeps the rows
\* and returns the table it was given, modified in place.
C10_WeightFrame ==
    [][(phase = "top" /\ pc = 20 /\ pc' = 21) =>
           /\ err' = ""
           /\ \A r \in DOMAIN heap : likelihood(heap[r]) = One
           /\ ret' = datafr
           /\ datafr' = datafr
           /\ schain' = schain
           /\ DOMAIN heap' = DOMAIN heap
           /\ \A r \in DOMAIN heap \ {datafr} : heap'[r] = heap[r]
           /\ heap'[datafr].n = heap[datafr].n
           /\ DOMAIN heap'[datafr].col = DOMAIN heap[datafr].col \cup {"weight"}
           /\ \A c \in DOMAIN heap[datafr].col \ {"weight"} :
                  heap'[datafr].col[c] = heap[datafr].col[c]
           /\ heap'[datafr].col["weight"] = Const(heap[datafr].n, One)]_vars

\* weight_by_likelihood has been applied to a table whose rows differ.
C10_Witness ==
    /\ phase = "top" /\ pc = 21
    /\ ret = datafr
    /\ "weight" \in Columns(datafr)
    /\ heap[datafr].n >= 2
    /\ heap[datafr].col["alpha"][1] # heap[datafr].col["alpha"][2]

=============================================================================
